---------------------------- MODULE Spec2Model ----------------------------
(***************************************************************************)
(* A model of the WeChat connector's ingestion pipeline:                   *)
(*   src/src/connector.py      WeChatConnector (extract, parse, identity,  *)
(*                             dispatch, poll loop)                        *)
(*   src/src/message_dedup.py  MessageDeduplicator (the dedup store and    *)
(*                             its JSON state file)                        *)
(*                                                                         *)
(* Strings are sequences of one-character tokens, so that strip, the       *)
(* " : " separator search, split and the key's concatenation are computed  *)
(* as the code computes them.  A character outside ASCII is a token named  *)
(* by its code point ("U7FA4" is the first character of the group          *)
(* sentinel).                                                              *)
(***************************************************************************)
EXTENDS Integers, Sequences, FiniteSets, TLC

(***************************************************************************)
(* Bounds of the model.                                                    *)
(***************************************************************************)
\* The longest dump text, counted in items (tags and other text).
MaxTextLen == 2
\* The count of successful dispatches of one identity stops at this value.
CountCap == 2
\* The longest content attribute _parse_message is called on by itself.
MaxContentLen == 5
\* The longest sender and content _compute_message_id is called on by itself.
MaxFieldLen == 2
\* The latest second of the watched file's mtime, and its largest size.
MaxMtime == 1
MaxSize == 1

(***************************************************************************)
(* Strings.                                                                *)
(***************************************************************************)
Range(s) == {s[i] : i \in DOMAIN s}

\* The white space str.strip() removes.
Whitespace == {" ", "\t"}

\* str.strip(): s without its leading and trailing white space.
strip(s) ==
    LET keep == {i \in DOMAIN s : s[i] \notin Whitespace}
    IN  IF keep = {} THEN <<>>
        ELSE LET lo == CHOOSE i \in keep : \A j \in keep : i <= j
                 hi == CHOOSE i \in keep : \A j \in keep : j <= i
             IN  SubSeq(s, lo, hi)

\* The separator of "sender : content".
Sep == <<" ", ":", " ">>

\* The index at which the last occurrence of Sep in s starts.
find_sep_last(s) ==
    LET at == {i \in 1..(Len(s) - 2) : SubSeq(s, i, i + 2) = Sep}
    IN  IF at = {} THEN 0 ELSE CHOOSE i \in at : \A j \in at : j <= i

\* The index at which the first occurrence of Sep in s starts, 0 when `Sep in s`
\* is false.
find_sep(s) ==
    LET at == {i \in 1..(Len(s) - 2) : SubSeq(s, i, i + 2) = Sep}
    IN  IF at = {} THEN 0 ELSE CHOOSE i \in at : \A j \in at : i <= j

\* s.split(" : ", 1) when the separator is in s: the text left and right of its
\* first occurrence.
split_sep(s) ==
    LET i == find_sep(s)
    IN  <<SubSeq(s, 1, i - 1), SubSeq(s, i + 3, Len(s))>>

\* The two nicknames that denote a group chat, the sender of a group message
\* without a separator, and the two conversation labels.
GroupSentinel == <<"U7FA4", "U804A">>
GroupWithAI == <<"g", "r", "o", "u", "p", "_", "w", "i", "t", "h", "_", "A", "I">>
UnknownSender == <<"U672A", "U77E5">>
DirectLabel == <<"M", "w", "u", "UFF01">>

(***************************************************************************)
(* WeChatConnector: classification and identity.                           *)
(***************************************************************************)
\* _parse_message: a fragment to a structured message.
_parse_message(pushcontent) ==
    LET nickname == strip(pushcontent.nickname)
        content_text == pushcontent.content
        is_group == (nickname = GroupSentinel \/ nickname = GroupWithAI)
        has_sep == find_sep(content_text) # 0
        parts == split_sep(content_text)
    IN  IF is_group
        THEN [sender    |-> IF has_sep THEN strip(parts[1]) ELSE UnknownSender,
              content   |-> IF has_sep THEN strip(parts[2]) ELSE content_text,
              is_group  |-> TRUE,
              chat_name |-> GroupWithAI]
        ELSE [sender    |-> nickname,
              content   |-> IF has_sep THEN strip(parts[2]) ELSE content_text,
              is_group  |-> FALSE,
              chat_name |-> DirectLabel]

\* str(bool), as an f-string renders it.
bool_str(b) == IF b THEN <<"T", "r", "u", "e">> ELSE <<"F", "a", "l", "s", "e">>

\* A key that leaves the sender out.
message_key_no_sender(is_group, sender, content) ==
    bool_str(is_group) \o <<":">> \o content

\* The canonical key f"{is_group}:{sender}:{content}".
message_key(is_group, sender, content) ==
    bool_str(is_group) \o <<":">> \o sender \o <<":">> \o content

\* hashlib.md5(...).hexdigest(): a digest is taken to be collision free, so it is
\* the key under a tag.
md5(key) == <<"md5">> \o key

\* _compute_message_id.
_compute_message_id(is_group, sender, content) ==
    md5(message_key(is_group, sender, content))

(***************************************************************************)
(* WeChatConnector: dispatch.                                              *)
(***************************************************************************)
\* How the one urlopen call of _send_to_webhook can end: with a response and its
\* status, or with an exception (HTTPError for an error status, a timeout, a
\* connection error, an encoding error of the payload).
Exchanges ==
    {[kind |-> "response", status |-> c] : c \in {200, 201, 204}} \cup
    {[kind |-> "http_error", status |-> c] : c \in {404, 500}} \cup
    {[kind |-> k, status |-> 0] : k \in {"timeout", "url_error", "encode_error"}}

\* _send_to_webhook taking any response for a success.
_send_to_webhook_any_response(x) ==
    [ret |-> x.kind = "response", raised |-> FALSE]

\* _send_to_webhook, lines 154-169: what it returns and whether it raises.
_send_to_webhook(x) ==
    IF x.kind = "response"
    THEN [ret |-> x.status = 200, raised |-> FALSE]
    ELSE [ret |-> FALSE, raised |-> FALSE]

\* What _send_to_webhook can return to process_message.
SendResults == {_send_to_webhook(x).ret : x \in Exchanges}

(***************************************************************************)
(* The fragments and dump texts the model draws from.                      *)
(***************************************************************************)
\* A direct message, its nickname padded with white space.
FragBobHi == [nickname |-> <<" ", "B", "o", "b">>, content |-> <<"h", "i">>]
\* The same direct message with a "x : " prefix: another fragment, the same
\* structured message.
FragBobPrefixedHi ==
    [nickname |-> <<"B", "o", "b">>, content |-> <<"x", " ", ":", " ", "h", "i">>]
\* A group message with a sender.
FragGroupAlHi ==
    [nickname |-> GroupSentinel, content |-> <<"A", "l", " ", ":", " ", "h", "i">>]

\* A group message without the separator.
FragGroupHi == [nickname |-> GroupSentinel, content |-> <<"h", "i">>]

Fragments == {FragBobHi, FragBobPrefixedHi, FragGroupAlHi, FragGroupHi}

\* The identity process_message computes for a fragment (lines 182-192).
IdOf == [f \in Fragments |->
            LET msg == _parse_message(f)
            IN  _compute_message_id(msg.is_group, msg.sender, msg.content)]

Ids == {IdOf[f] : f \in Fragments}

\* An item of dump text: a well-formed pushcontent tag (wf) with its two
\* attributes, or text the pattern does not match (a cut-off tag, other bytes).
Tag(f) == [wf |-> TRUE, nickname |-> f.nickname, content |-> f.content]
OtherText == [wf |-> FALSE, nickname |-> <<>>, content |-> <<>>]
\* The fragments dump texts are made of.
DumpFragments == {FragBobHi, FragBobPrefixedHi, FragGroupAlHi}
Items == {Tag(f) : f \in DumpFragments} \cup {OtherText}

Texts == UNION {[1..n -> Items] : n \in 0..MaxTextLen}

\* What read_text_content returns: None, or the decoded text.
Absent == [present |-> FALSE, text |-> <<>>]
Fetched == {Absent} \cup {[present |-> TRUE, text |-> t] : t \in Texts}

\* _extract_pushcontent: the fragments of the well-formed tags, in text order.
RECURSIVE _extract_pushcontent(_)
_extract_pushcontent(content) ==
    IF content = <<>> THEN <<>>
    ELSE LET item == Head(content)
             rest == _extract_pushcontent(Tail(content))
         IN  IF item.wf
             THEN <<[nickname |-> item.nickname, content |-> item.content]>> \o rest
             ELSE rest

(***************************************************************************)
(* MessageDeduplicator: the state file and the operations on it.           *)
(*                                                                         *)
(* The file is [kind, ids]: "missing" (no file at the path), "unreadable"  *)
(* (open or read raises), "malformed" (json.load or the set construction   *)
(* raises: not JSON, a cut-off document, not an object) or "json" (an      *)
(* object whose processed_ids list is ids).  last_update is written and    *)
(* never read; it is left out.                                             *)
(***************************************************************************)
MissingFile == [kind |-> "missing", ids |-> <<>>]
UnreadableFile == [kind |-> "unreadable", ids |-> <<>>]
MalformedFile == [kind |-> "malformed", ids |-> <<>>]

\* list(a_set): the elements in some order, each once.
RECURSIVE list_of(_)
list_of(S) ==
    IF S = {} THEN <<>>
    ELSE LET x == CHOOSE y \in S : TRUE IN <<x>> \o list_of(S \ {x})

JsonFile(S) == [kind |-> "json", ids |-> list_of(S)]

\* How a write of the state file ends: "ok"; "no_open" (makedirs or open raises:
\* the file is untouched); "partial" (open has truncated the file and json.dump
\* or the close raises: a cut-off document is left).
WriteOutcomes == {"ok", "no_open", "partial"}

\* _load wrongly reading a key the file never holds: every load is empty.
_load_wrong_key(f) == [ids |-> {}, raised |-> FALSE]

\* _load without its except clause: a failure escapes the constructor.
_load_no_except(f) ==
    IF f.kind = "missing" THEN [ids |-> {}, raised |-> FALSE]
    ELSE IF f.kind = "json" THEN [ids |-> Range(f.ids), raised |-> FALSE]
    ELSE [ids |-> {}, raised |-> TRUE]

\* __init__ and _load: the set a new instance holds, and whether the constructor
\* raises.
_load(f) ==
    IF f.kind = "missing" THEN [ids |-> {}, raised |-> FALSE]
    ELSE IF f.kind = "json" THEN [ids |-> Range(f.ids), raised |-> FALSE]
    ELSE [ids |-> {}, raised |-> FALSE]

\* _save without its except clause: a failed write raises.
_save_no_except(ids, f, w) ==
    [file   |-> CASE w = "ok"      -> JsonFile(ids)
                  [] w = "no_open" -> f
                  [] w = "partial" -> MalformedFile,
     raised |-> w # "ok"]

\* _save: the file after the write of the set ids ends as w.
_save(ids, f, w) ==
    [file   |-> CASE w = "ok"      -> JsonFile(ids)
                  [] w = "no_open" -> f
                  [] w = "partial" -> MalformedFile,
     raised |-> FALSE]

is_processed(ids, message_id) == message_id \in ids

\* mark_processed rolling the insertion back when the write fails.
mark_processed_rollback(ids, f, message_id, w) ==
    LET saved == _save(ids \cup {message_id}, f, w)
    IN  [ids    |-> IF w = "ok" THEN ids \cup {message_id} ELSE ids,
         file   |-> saved.file,
         raised |-> saved.raised]

\* mark_processed assigning the set instead of adding to it.
mark_processed_assign(ids, f, message_id, w) ==
    LET saved == _save({message_id}, f, w)
    IN  [ids |-> {message_id}, file |-> saved.file, raised |-> saved.raised]

\* mark_processed keeping a list: the id is appended and written again.
mark_processed_append(ids, f, message_id, w) ==
    [ids    |-> ids \cup {message_id},
     file   |-> IF w = "ok"
                THEN [kind |-> "json",
                      ids  |-> (IF f.kind = "json" THEN f.ids ELSE <<>>)
                                    \o <<message_id>>]
                ELSE _save(ids, f, w).file,
     raised |-> FALSE]

\* mark_processed: the set, the file and whether the call raises.
mark_processed(ids, f, message_id, w) ==
    LET saved == _save(ids \cup {message_id}, f, w)
    IN  [ids |-> ids \cup {message_id}, file |-> saved.file, raised |-> saved.raised]

\* reset forgetting to save.
reset_no_save(f, w) == [ids |-> {}, file |-> f, raised |-> FALSE]

\* reset.
reset(f, w) ==
    LET saved == _save({}, f, w)
    IN  [ids |-> {}, file |-> saved.file, raised |-> saved.raised]

get_stats(ids) == Cardinality(ids)

\* The files an instance may find at its path when the model starts: none, an
\* unreadable or malformed one, or one this program wrote.
InitFiles == {MissingFile, UnreadableFile, MalformedFile} \cup {JsonFile(S) : S \in SUBSET Ids}


(***************************************************************************)
(* State.                                                                  *)
(***************************************************************************)
VARIABLES
    \* MessageDeduplicator
    processed_ids,   \* self._processed_ids of the live instance
    file,            \* the content of the file at storage_path
    raised,          \* an exception escaped the last store call
    \* WeChatConnector
    running,         \* self._running
    pc,              \* where the thread that called start_polling stands
    pushcontents,    \* poll_once: the fragments of the cycle
    idx,             \* poll_once: the fragment the for loop is at
    processed_count, \* poll_once: processed_count
    \* History of the live store instance
    loaded,          \* the ids it loaded at construction
    from_kind,       \* the kind of file it was constructed on
    marked,          \* the ids mark_processed was called with
    mutated,         \* a mark_processed or reset has returned
    write_failed,    \* a write of the state file has failed
    save_failed,     \* the ids whose mark_processed could not write the file
    ever_known,      \* the ids known at some time since construction or reset
    op,              \* the last call a client made on the store
    \* History of the connector's process
    ok_count,        \* per id, how often _send_to_webhook has returned true
    cycle_tried,     \* the ids _send_to_webhook was called for in this cycle
    cycle_ok,        \* ... and returned true for in this cycle
    cycle_failed,    \* ... and returned false for in this cycle
    cycle_true,      \* how often _send_to_webhook has returned true in this cycle
    failed_before,   \* the ids a send returned false for in an earlier cycle
    known_at_start,  \* _processed_ids as this cycle found it
    last,            \* what poll_once or process_message last did
    stop_called,     \* stop_polling() has been called in this process
    exit,            \* how start_polling returned, and where the thread stood
    \* A second invocation of poll_once on the same connector
    pc2,             \* where it stands: "idle", "process" or "mark"
    pushcontents2,   \* its local pushcontents
    idx2,            \* its position in them
    processed_count2,\* its local processed_count
    \* A helper called on its own
    call,            \* the last call of a helper: its name, arguments and result
    \* MMKVReader and the file it watches
    device,          \* the file on the device: its mtime and its size
    _last_mtime,     \* self._last_mtime
    _last_size,      \* self._last_size
    checked,         \* the has_new_content calls made on this instance so far
    got              \* the last get_messages(only_new=True) call on this instance

store_vars == <<processed_ids, file, raised>>
store_hist == <<loaded, from_kind, marked, mutated, write_failed, save_failed,
               ever_known>>
engine_vars == <<running, pc, pushcontents, idx, processed_count>>
engine_hist == <<ok_count, cycle_tried, cycle_ok, cycle_failed, cycle_true,
                failed_before, known_at_start, last>>
stop_hist == <<stop_called, exit>>
second_vars == <<pc2, pushcontents2, idx2, processed_count2>>
reader_vars == <<device, _last_mtime, _last_size, checked, got>>
rest_vars == <<second_vars, call, reader_vars>>
vars == <<store_vars, store_hist, op, engine_vars, engine_hist, stop_hist,
          rest_vars>>

\* No id: the argument of a call that takes none.
NoId == <<>>

NoOp == [name |-> "none", arg |-> NoId, ret |-> FALSE, count |-> 0, w |-> "none",
         before |-> {}, clean |-> TRUE, had |-> {}]

NoLast == [kind |-> "none", id |-> NoId, ok |-> FALSE, again |-> FALSE]

\* No helper has been called on its own.
NoCall == [name |-> "none"]

\* None, and a value that is not None, of an Optional.
None == <<>>
Some(v) == <<v>>

\* The watched file when the model starts: its mtime, in seconds and a fraction
\* of a second, and its size.
InitDevice == [sec |-> 0, frac |-> 0, size |-> 0]

\* has_new_content has not been called on this instance.
NoCheck == [which |-> "none", stat |-> None, ret |-> FALSE, prev |-> None,
            seen |-> None, before |-> <<None, 0>>]

\* get_messages has not been called on this instance.  owed: the change of the
\* file that a call detected and could not read, while the file stays as it is.
NoGot == [changed |-> FALSE, stat_ok |-> FALSE, read_ok |-> FALSE, read |-> "none",
          owed_before |-> FALSE, owed |-> FALSE]

\* start_polling has not returned.
NoExit == [how |-> "none", at |-> "none"]

\* op after a call: its name, argument, results and write outcome, and the
\* instance's set, write record and marked ids as the call found them.
Called(name, arg, ret, count, w) ==
    [name |-> name, arg |-> arg, ret |-> ret, count |-> count, w |-> w,
     before |-> processed_ids, clean |-> ~write_failed, had |-> marked]

(***************************************************************************)
(* The store's part of each step.                                          *)
(***************************************************************************)
\* MessageDeduplicator(storage_path): a new instance on the file as it is.
StoreConstruct ==
    LET r == _load(file)
    IN  /\ processed_ids' = r.ids
        /\ raised' = r.raised
        /\ file' = file
        /\ loaded' = r.ids
        /\ from_kind' = file.kind
        /\ marked' = {}
        /\ mutated' = FALSE
        /\ write_failed' = FALSE
        /\ save_failed' = {}
        /\ ever_known' = r.ids

\* mark_processed(message_id), its write ending as w.
StoreMark(message_id, w) ==
    LET r == mark_processed(processed_ids, file, message_id, w)
    IN  /\ processed_ids' = r.ids
        /\ file' = r.file
        /\ raised' = r.raised
        /\ marked' = marked \cup {message_id}
        /\ mutated' = TRUE
        /\ write_failed' = (write_failed \/ w # "ok")
        /\ save_failed' = IF w # "ok" THEN save_failed \cup {message_id}
                          ELSE save_failed
        /\ ever_known' = ever_known \cup r.ids
        /\ UNCHANGED <<loaded, from_kind>>

(***************************************************************************)
(* The store under any client: StoreSpec.                                  *)
(***************************************************************************)
\* A connector (and with it a store instance) has been constructed on some file.
Init ==
    /\ file \in InitFiles
    /\ processed_ids = _load(file).ids
    /\ raised = _load(file).raised
    /\ loaded = _load(file).ids
    /\ from_kind = file.kind
    /\ marked = {}
    /\ mutated = FALSE
    /\ write_failed = FALSE
    /\ save_failed = {}
    /\ ever_known = _load(file).ids
    /\ op = [NoOp EXCEPT !.name = "init"]
    /\ running = FALSE
    /\ pc = "new"
    /\ pushcontents = <<>>
    /\ idx = 0
    /\ processed_count = 0
    /\ ok_count = [id \in Ids |-> 0]
    /\ cycle_tried = {}
    /\ cycle_ok = {}
    /\ cycle_failed = {}
    /\ cycle_true = 0
    /\ failed_before = {}
    /\ known_at_start = {}
    /\ last = NoLast
    /\ stop_called = FALSE
    /\ exit = NoExit
    /\ pc2 = "idle"
    /\ pushcontents2 = <<>>
    /\ idx2 = 0
    /\ processed_count2 = 0
    /\ call = NoCall
    /\ device = InitDevice
    /\ _last_mtime = None
    /\ _last_size = 0
    /\ checked = NoCheck
    /\ got = NoGot

\* The same on a data directory without a state file.
FreshInit == Init /\ file = MissingFile

\* The process ends and a new instance is constructed on the same path.
Construct ==
    /\ StoreConstruct
    /\ op' = Called("construct", NoId, FALSE, 0, "none")
    /\ UNCHANGED <<engine_vars, engine_hist,
                   stop_hist, rest_vars>>

IsProcessed(message_id) ==
    /\ op' = Called("is_processed", message_id,
                    is_processed(processed_ids, message_id), 0, "none")
    /\ UNCHANGED <<store_vars, store_hist, engine_vars, engine_hist,
                   stop_hist, rest_vars>>

MarkProcessed(message_id, w) ==
    /\ StoreMark(message_id, w)
    /\ op' = Called("mark_processed", message_id, FALSE, 0, w)
    /\ UNCHANGED <<engine_vars, engine_hist,
                   stop_hist, rest_vars>>

Reset(w) ==
    LET r == reset(file, w)
    IN  /\ processed_ids' = r.ids
        /\ file' = r.file
        /\ raised' = r.raised
        /\ marked' = {}
        /\ mutated' = TRUE
        /\ write_failed' = (write_failed \/ w # "ok")
        /\ ever_known' = r.ids
        /\ op' = Called("reset", NoId, FALSE, 0, w)
        /\ UNCHANGED <<loaded, from_kind, save_failed, engine_vars, engine_hist,
                   stop_hist, rest_vars>>

GetStats ==
    /\ op' = Called("get_stats", NoId, FALSE, get_stats(processed_ids), "none")
    /\ UNCHANGED <<store_vars, store_hist, engine_vars, engine_hist,
                   stop_hist, rest_vars>>

StoreNext ==
    \/ Construct
    \/ \E message_id \in Ids : IsProcessed(message_id)
    \/ \E message_id \in Ids, w \in WriteOutcomes : MarkProcessed(message_id, w)
    \/ \E w \in WriteOutcomes : Reset(w)
    \/ GetStats

StoreSpec == Init /\ [][StoreNext]_vars


(***************************************************************************)
(* WeChatConnector: the poll engine, Spec.                                 *)
(*                                                                         *)
(* pc: "new" (constructed), "loop" (at the while test), "poll" (poll_once  *)
(* entered), "process" (process_message about to run on pushcontents[idx]),*)
(* "mark" (_send_to_webhook has returned true, mark_processed is next),    *)
(* "sleep" (poll_once has returned), "returned" (start_polling has         *)
(* returned), "crashed" (an exception left start_polling).                 *)
(***************************************************************************)
\* The ids _send_to_webhook has returned true for in this process.
sent_ok == {id \in Ids : ok_count[id] >= 1}

\* process_message without the is_processed test.
process_message_no_check(ids, message_id, success) ==
    [send |-> TRUE, mark |-> success, ret |-> success]

\* process_message with the test of the dispatch result inverted.
process_message_inverted(ids, message_id, success) ==
    IF is_processed(ids, message_id)
    THEN [send |-> FALSE, mark |-> FALSE, ret |-> FALSE]
    ELSE [send |-> TRUE, mark |-> ~success, ret |-> ~success]

\* process_message marking whatever the dispatch returned.
process_message_mark_always(ids, message_id, success) ==
    IF is_processed(ids, message_id)
    THEN [send |-> FALSE, mark |-> FALSE, ret |-> FALSE]
    ELSE [send |-> TRUE, mark |-> TRUE, ret |-> success]

\* process_message, lines 194-210: whether it calls _send_to_webhook, whether it
\* calls mark_processed, and what it returns, when _send_to_webhook would return
\* success.
process_message(ids, message_id, success) ==
    IF is_processed(ids, message_id)
    THEN [send |-> FALSE, mark |-> FALSE, ret |-> FALSE]
    ELSE IF success
         THEN [send |-> TRUE, mark |-> TRUE, ret |-> TRUE]
         ELSE [send |-> TRUE, mark |-> FALSE, ret |-> FALSE]

\* The for loop of poll_once moves on: to the next fragment, or out of poll_once.
NextFragment ==
    IF idx < Len(pushcontents)
    THEN idx' = idx + 1 /\ pc' = "process"
    ELSE idx' = idx /\ pc' = "sleep"

\* start_polling up to the while loop: the device check, then _running = True.
StartPolling ==
    /\ pc = "new"
    /\ \E connected \in BOOLEAN :
          IF connected
          THEN running' = TRUE /\ pc' = "loop" /\ exit' = exit
          ELSE /\ running' = running /\ pc' = "returned"
               /\ exit' = [how |-> "check", at |-> pc]
    /\ UNCHANGED <<store_vars, store_hist, op, pushcontents, idx, processed_count,
                   engine_hist, stop_called, rest_vars>>

\* while self._running.
LoopTest ==
    /\ pc = "loop"
    /\ pc' = IF running THEN "poll" ELSE "returned"
    /\ exit' = IF running THEN exit ELSE [how |-> "test", at |-> pc]
    /\ UNCHANGED <<store_vars, store_hist, op, running, pushcontents, idx,
                   processed_count, engine_hist, stop_called, rest_vars>>

\* poll_once going over the fragments of the last cycle again when the fetch
\* returns nothing.
PollFetch_stale(content) ==
    /\ pc = "poll"
    /\ LET found == IF content.present THEN _extract_pushcontent(content.text)
                    ELSE pushcontents
       IN  /\ pushcontents' = found
           /\ idx' = IF found = <<>> THEN 0 ELSE 1
           /\ pc' = IF found = <<>> THEN "sleep" ELSE "process"
           /\ last' = [NoLast EXCEPT !.kind = IF ~content.present THEN "absent"
                                             ELSE IF found = <<>> THEN "no_tag"
                                             ELSE "none"]
    /\ processed_count' = 0
    /\ cycle_tried' = {}
    /\ cycle_ok' = {}
    /\ cycle_failed' = {}
    /\ cycle_true' = 0
    /\ failed_before' = failed_before \cup cycle_failed
    /\ known_at_start' = processed_ids
    /\ UNCHANGED <<store_vars, store_hist, op, running, ok_count, stop_hist,
                   rest_vars>>

\* poll_once, lines 219-232, on what read_text_content returns.
PollFetch(content) ==
    /\ pc = "poll"
    /\ LET found == IF content.present THEN _extract_pushcontent(content.text)
                    ELSE <<>>
       IN  /\ pushcontents' = found
           /\ idx' = IF found = <<>> THEN 0 ELSE 1
           /\ pc' = IF found = <<>> THEN "sleep" ELSE "process"
           /\ last' = [NoLast EXCEPT !.kind = IF ~content.present THEN "absent"
                                             ELSE IF found = <<>> THEN "no_tag"
                                             ELSE "none"]
    /\ processed_count' = 0
    /\ cycle_tried' = {}
    /\ cycle_ok' = {}
    /\ cycle_failed' = {}
    /\ cycle_true' = 0
    /\ failed_before' = failed_before \cup cycle_failed
    /\ known_at_start' = processed_ids
    /\ UNCHANGED <<store_vars, store_hist, op, running, ok_count, stop_hist,
                   rest_vars>>

\* process_message on pushcontents[idx] up to the return of _send_to_webhook,
\* which returns success when it is called.
ProcessMessage(success) ==
    /\ pc = "process"
    /\ LET message_id == IdOf[pushcontents[idx]]
           does == process_message(processed_ids, message_id, success)
       IN  /\ op' = Called("is_processed", message_id,
                           is_processed(processed_ids, message_id), 0, "none")
           /\ last' = IF does.send
                      THEN [kind |-> "send", id |-> message_id, ok |-> success,
                            again |-> message_id \in sent_ok]
                      ELSE [kind |-> "skip", id |-> message_id, ok |-> FALSE,
                            again |-> message_id \in sent_ok]
           /\ cycle_tried' = IF does.send THEN cycle_tried \cup {message_id}
                             ELSE cycle_tried
           /\ cycle_ok' = IF does.send /\ success THEN cycle_ok \cup {message_id}
                          ELSE cycle_ok
           /\ cycle_failed' = IF does.send /\ ~success
                              THEN cycle_failed \cup {message_id}
                              ELSE cycle_failed
           /\ cycle_true' = IF does.send /\ success THEN cycle_true + 1
                            ELSE cycle_true
           /\ ok_count' = IF does.send /\ success /\ ok_count[message_id] < CountCap
                          THEN [ok_count EXCEPT ![message_id] = @ + 1]
                          ELSE ok_count
           /\ IF does.mark
              THEN pc' = "mark" /\ idx' = idx
              ELSE NextFragment
    /\ UNCHANGED <<store_vars, store_hist, running, pushcontents, processed_count,
                   failed_before, known_at_start, stop_hist, rest_vars>>

\* process_message, lines 205-207: mark_processed, its write ending as w, and the
\* count of poll_once.
MarkSent(w) ==
    /\ pc = "mark"
    /\ LET message_id == IdOf[pushcontents[idx]]
       IN  /\ StoreMark(message_id, w)
           /\ op' = Called("mark_processed", message_id, FALSE, 0, w)
    /\ IF raised'
       THEN pc' = "crashed" /\ idx' = idx /\ processed_count' = processed_count
       ELSE NextFragment /\ processed_count' = processed_count + 1
    /\ last' = NoLast
    /\ UNCHANGED <<running, pushcontents, ok_count, cycle_tried, cycle_ok,
                   cycle_failed, cycle_true, failed_before, known_at_start,
                   stop_hist, rest_vars>>

\* time.sleep(self.poll_interval) returns.
Sleep ==
    /\ pc = "sleep"
    /\ pc' = "loop"
    /\ UNCHANGED <<store_vars, store_hist, op, running, pushcontents, idx,
                   processed_count, engine_hist, stop_hist, rest_vars>>

\* stop_polling(): what the call does, whenever it comes.
stop_polling ==
    /\ running' = FALSE
    /\ stop_called' = TRUE
    /\ UNCHANGED <<store_vars, store_hist, op, pc, pushcontents, idx,
                   processed_count, engine_hist, exit, rest_vars>>

\* stop_polling(), called from another thread while start_polling is in its loop.
StopPolling ==
    /\ pc \in {"loop", "poll", "process", "mark", "sleep"}
    /\ stop_polling

\* stop_polling(), called from another thread before start_polling has set
\* _running, line 248.
StopBeforeLoop ==
    /\ pc = "new"
    /\ stop_polling

\* KeyboardInterrupt inside the try block of start_polling.
Interrupt ==
    /\ pc \in {"loop", "poll", "process", "mark", "sleep"}
    /\ running' = FALSE
    /\ pc' = "returned"
    /\ exit' = [how |-> "interrupt", at |-> pc]
    /\ UNCHANGED <<store_vars, store_hist, op, pushcontents, idx, processed_count,
                   engine_hist, stop_called, rest_vars>>

\* The process ends, wherever it stands, and a new one constructs a connector on
\* the same data directory.
Restart ==
    /\ StoreConstruct
    /\ op' = Called("construct", NoId, FALSE, 0, "none")
    /\ running' = FALSE
    /\ pc' = "new"
    /\ pushcontents' = <<>>
    /\ idx' = 0
    /\ processed_count' = 0
    /\ ok_count' = [id \in Ids |-> 0]
    /\ cycle_tried' = {}
    /\ cycle_ok' = {}
    /\ cycle_failed' = {}
    /\ cycle_true' = 0
    /\ failed_before' = {}
    /\ known_at_start' = {}
    /\ last' = NoLast
    /\ stop_called' = FALSE
    /\ exit' = NoExit
    /\ UNCHANGED rest_vars

Next ==
    \/ StartPolling
    \/ LoopTest
    \/ \E content \in Fetched : PollFetch(content)
    \/ \E success \in SendResults : ProcessMessage(success)
    \/ \E w \in WriteOutcomes : MarkSent(w)
    \/ Sleep
    \/ StopPolling
    \/ Interrupt
    \/ Restart

Spec == Init /\ [][Next]_vars


(***************************************************************************)
(* The engine kept cycling over a dump that keeps one fragment: FairSpec.  *)
(*                                                                         *)
(* No stop, interrupt or restart; every text fetched holds the tag of      *)
(* WatchedFragment.  The thread keeps taking steps (WF of FairNext), the   *)
(* fetch returns text again and again (SF of FetchText) and a dispatch of  *)
(* the watched identity that is attempted again and again succeeds (SF of  *)
(* DispatchWatchedOk).                                                     *)
(***************************************************************************)
WatchedFragment == FragBobPrefixedHi
WatchedId == IdOf[WatchedFragment]

\* What read_text_content returns while the fragment stays in the dump.
FetchedWithWatched ==
    {Absent} \cup {c \in Fetched : c.present /\ Tag(WatchedFragment) \in Range(c.text)}

\* start_polling with the device connected.
StartConnected == StartPolling /\ pc' = "loop"

FetchWatched == \E content \in FetchedWithWatched : PollFetch(content)

\* The fetch returns text.
FetchText ==
    \E content \in FetchedWithWatched : content.present /\ PollFetch(content)

\* _send_to_webhook is called for the watched identity and returns true.
DispatchWatchedOk ==
    /\ ProcessMessage(TRUE)
    /\ last'.kind = "send"
    /\ last'.id = WatchedId

FairNext ==
    \/ StartConnected
    \/ LoopTest
    \/ FetchWatched
    \/ \E success \in SendResults : ProcessMessage(success)
    \/ \E w \in WriteOutcomes : MarkSent(w)
    \/ Sleep

FairSpec ==
    /\ Init
    /\ [][FairNext]_vars
    /\ WF_vars(FairNext)
    /\ SF_vars(FetchText)
    /\ SF_vars(DispatchWatchedOk)

(***************************************************************************)
(* Properties.                                                             *)
(***************************************************************************)
\* The number of times x occurs in the sequence s.
Count(x, s) == Cardinality({i \in DOMAIN s : s[i] = x})

\* The identities of the fragments of the current cycle.
CycleIds == {IdOf[pushcontents[i]] : i \in DOMAIN pushcontents}

\* C1: in one process, no identity gets a second successful dispatch, and
\* _send_to_webhook is never called again for an identity it has returned true
\* for, in the same cycle or a later one.
C1_AtMostOneSuccess ==
    /\ \A id \in Ids : ok_count[id] <= 1
    /\ last.kind = "send" => ~last.again

\* A later cycle sees again, and skips, an identity dispatched in an earlier one.
C1_Witness ==
    /\ last.kind = "skip"
    /\ last.id \in sent_ok \ cycle_ok

\* C2: while the fragment stays in the dump and the engine keeps cycling, an
\* identity the store did not hold at construction is in the end dispatched
\* successfully and marked, for good, and its successful dispatches never number
\* more than one.
C2_ForwardedOnce ==
    /\ [](ok_count[WatchedId] <= 1)
    /\ (WatchedId \notin loaded) =>
          <>[](ok_count[WatchedId] = 1 /\ is_processed(processed_ids, WatchedId))

\* The watched identity, dispatched after a failed dispatch in an earlier cycle,
\* is seen again and skipped.
C2_Witness ==
    /\ WatchedId \notin loaded
    /\ WatchedId \in failed_before
    /\ ok_count[WatchedId] = 1
    /\ last.kind = "skip"
    /\ last.id = WatchedId

\* C3 as stated: at the end of a cycle, every identity a send returned false for
\* in it is outside the dedup set, and every identity a send returned false for
\* in an earlier cycle and whose fragment is in this cycle's dump has been sent
\* again in this cycle.
C3_AsStated ==
    pc = "sleep" =>
        /\ \A id \in cycle_failed : ~is_processed(processed_ids, id)
        /\ \A id \in CycleIds \cap failed_before : id \in cycle_tried

\* C3, amended: at the end of a cycle, every identity for which each send of the
\* cycle returned false is outside the dedup set, and every identity a send
\* returned false for in an earlier cycle, still unmarked when this cycle began
\* and with a fragment in this cycle's dump, has been sent again in this cycle.
C3_RetryAfterFailure ==
    pc = "sleep" =>
        /\ \A id \in cycle_failed \ cycle_ok : ~is_processed(processed_ids, id)
        /\ \A id \in (CycleIds \cap failed_before) \ known_at_start :
              id \in cycle_tried

\* A cycle has ended in which an identity that failed in an earlier cycle was
\* sent again, and failed again.
C3_Witness ==
    /\ pc = "sleep"
    /\ \E id \in (CycleIds \cap failed_before) \ known_at_start :
          id \in cycle_failed \ cycle_ok

\* C4: every identity in the dedup set was loaded at construction or has had a
\* dispatch return true, and mark_processed is reached only right after a
\* dispatch of that identity returned true.
C4_MarkOnlyAfterSuccess ==
    /\ processed_ids \subseteq (loaded \cup sent_ok)
    /\ pc = "mark" =>
          /\ last.kind = "send"
          /\ last.ok
          /\ last.id = IdOf[pushcontents[idx]]
    /\ op.name = "mark_processed" => op.arg \in sent_ok

\* An identity that was not loaded has been dispatched and marked.
C4_Witness ==
    /\ op.name = "mark_processed"
    /\ op.arg \in processed_ids \ loaded

\* C7: a mark_processed whose write fails returns without raising and leaves the
\* id in the set, every id so marked stays known, and no dispatch is made for it.
C7_PersistFailureKeeps ==
    /\ (op.name = "mark_processed" /\ op.w # "ok") =>
          /\ ~raised
          /\ pc # "crashed"
          /\ is_processed(processed_ids, op.arg)
    /\ \A id \in save_failed : is_processed(processed_ids, id)
    /\ last.kind = "send" => last.id \notin save_failed

\* An identity whose write failed is seen again and skipped.
C7_Witness ==
    /\ last.kind = "skip"
    /\ last.id \in save_failed
    /\ file # JsonFile(processed_ids)


\* C5: a new instance constructed after an instance none of whose writes failed
\* knows exactly the ids that instance knew, the ones it marked among them.
C5_RoundTrip ==
    (op.name = "construct" /\ op.clean) =>
        /\ \A id \in Ids : is_processed(processed_ids, id) <=> id \in op.before
        /\ op.had \subseteq processed_ids

\* A new instance has been constructed after one that loaded ids and marked
\* others, every write succeeding.
C5_Witness ==
    /\ op.name = "construct"
    /\ op.clean
    /\ op.had # {}
    /\ op.before \ op.had # {}
    /\ processed_ids = op.before

\* C6 as stated: after mark_processed(id) is called again, the id is known, the
\* set is as the call found it, and the persisted list holds the id exactly once.
C6_AsStated ==
    (op.name = "mark_processed" /\ op.arg \in op.had) =>
        /\ is_processed(processed_ids, op.arg)
        /\ processed_ids = op.before
        /\ file.kind = "json"
        /\ Count(op.arg, file.ids) = 1

\* C6, amended: after mark_processed(id) is called again, the id is known and
\* the set is as the call found it; the persisted list never holds the id more
\* than once, and holds it exactly once when the write of the second call
\* succeeds.
C6_MarkIdempotent ==
    (op.name = "mark_processed" /\ op.arg \in op.had) =>
        /\ is_processed(processed_ids, op.arg)
        /\ processed_ids = op.before
        /\ Count(op.arg, file.ids) <= 1
        /\ op.w = "ok" => (file.kind = "json" /\ Count(op.arg, file.ids) = 1)

\* mark_processed has been called a second time with an id, among other ids, and
\* its write succeeded.
C6_Witness ==
    /\ op.name = "mark_processed"
    /\ op.arg \in op.had
    /\ op.w = "ok"
    /\ Cardinality(processed_ids) >= 2

\* The kinds of file on which a load finds no prior state.
ColdKinds == {"missing", "unreadable", "malformed"}

\* C8: an instance constructed on a missing, unreadable or malformed file has not
\* raised and knows no id; a mark_processed on it then adds the id and, when its
\* write succeeds, the file holds the set.
C8_ColdStart ==
    /\ (op.name \in {"init", "construct"} /\ from_kind \in ColdKinds) =>
          /\ ~raised
          /\ \A id \in Ids : ~is_processed(processed_ids, id)
    /\ (op.name = "mark_processed" /\ from_kind \in ColdKinds) =>
          /\ ~raised
          /\ processed_ids = op.before \cup {op.arg}
          /\ loaded = {}
          /\ op.w = "ok" => file = JsonFile(processed_ids)

\* An instance constructed on a malformed file has taken its first mark.
C8_Witness ==
    /\ from_kind = "malformed"
    /\ op.name = "mark_processed"
    /\ op.before = {}
    /\ op.w = "ok"
    /\ file = JsonFile({op.arg})

\* C9: once a mutation has returned and no write of the instance has failed, the
\* ids of the persisted file are the in-memory set.
C9_ViewsAgree ==
    (mutated /\ ~write_failed) =>
        /\ file.kind = "json"
        /\ Range(file.ids) = processed_ids

\* A reset of a non-empty set has returned, no write having failed.
C9_Witness ==
    /\ mutated
    /\ ~write_failed
    /\ op.name = "reset"
    /\ op.before # {}
    /\ file = JsonFile({})

\* C10: without a reset, every id that was known since the instance was
\* constructed is known.
C10_OnlyGrows ==
    \A id \in ever_known : is_processed(processed_ids, id)

\* A mark_processed has added an id to a set that held another one.
C10_Witness ==
    /\ op.name = "mark_processed"
    /\ op.before # {}
    /\ op.arg \notin op.before
    /\ op.before \subseteq processed_ids


(***************************************************************************)
(* The engine with a second thread that calls stop_polling(): StopSpec.    *)
(*                                                                         *)
(* No Ctrl+C and no restart.  The call can come at any time from the       *)
(* construction of the connector on; the loop's thread keeps taking steps  *)
(* (WF of ThreadStep).                                                     *)
(***************************************************************************)
ThreadStep ==
    \/ StartPolling
    \/ LoopTest
    \/ \E content \in Fetched : PollFetch(content)
    \/ \E success \in SendResults : ProcessMessage(success)
    \/ \E w \in WriteOutcomes : MarkSent(w)
    \/ Sleep

StopNext ==
    \/ ThreadStep
    \/ StopPolling
    \/ StopBeforeLoop

StopSpec == Init /\ [][StopNext]_vars /\ WF_vars(ThreadStep)

\* C11: once stop_polling() has been called, in whatever state of the engine, the
\* while test of start_polling starts no further cycle (the claim as stated; it is
\* violated when the call comes before start_polling sets _running).
C11_AsStated == [][stop_called => ~(pc = "loop" /\ pc' = "poll")]_vars


\* C12: a stop signal aborts no cycle: when start_polling has returned, no cycle
\* was left with fragments unprocessed, and none between a _send_to_webhook that
\* returned true and its mark_processed (the claim as stated; Ctrl+C violates it).
C12_AsStated ==
    pc = "returned" =>
        /\ exit.at \notin {"process", "mark"}
        /\ ~(last.kind = "send" /\ last.ok /\ last.id \notin processed_ids)


(***************************************************************************)
(* poll_once invoked by a second thread on the same connector: ConcSpec.   *)
(*                                                                         *)
(* The first thread is in the loop of start_polling; a second thread calls *)
(* poll_once once.  The call has its own locals and shares self.dedup with *)
(* the loop; nothing in the connector keeps the two apart.  The data       *)
(* directory starts empty, the dump holds the watched fragment (alone,     *)
(* after a fragment of the same identity, or after one of another) and the *)
(* first thread is neither stopped nor restarted.                          *)
(***************************************************************************)
\* What read_text_content returns to either thread.
ConcFetched ==
    {Absent} \cup
    {[present |-> TRUE, text |-> t] :
        t \in {<<Tag(WatchedFragment)>>,
               <<Tag(FragBobHi), Tag(WatchedFragment)>>,
               <<Tag(FragGroupHi), Tag(WatchedFragment)>>}}

\* The for loop of the second poll_once moves on, or poll_once returns and its
\* locals are gone.
NextFragment2 ==
    IF idx2 < Len(pushcontents2)
    THEN idx2' = idx2 + 1 /\ pc2' = "process" /\ pushcontents2' = pushcontents2
    ELSE idx2' = 0 /\ pc2' = "done" /\ pushcontents2' = <<>>

\* The second poll_once, lines 219-232, on what read_text_content returns.
Poll2Fetch(content) ==
    /\ pc2 = "idle"
    /\ LET found == IF content.present THEN _extract_pushcontent(content.text)
                    ELSE <<>>
       IN  /\ pushcontents2' = found
           /\ idx2' = IF found = <<>> THEN 0 ELSE 1
           /\ pc2' = IF found = <<>> THEN "done" ELSE "process"
    /\ processed_count2' = 0
    /\ UNCHANGED <<store_vars, store_hist, op, engine_vars, engine_hist, stop_hist,
                   call, reader_vars>>

\* process_message of the second poll_once up to the return of _send_to_webhook.
Process2(success) ==
    /\ pc2 = "process"
    /\ LET message_id == IdOf[pushcontents2[idx2]]
           does == process_message(processed_ids, message_id, success)
       IN  /\ op' = Called("is_processed", message_id,
                           is_processed(processed_ids, message_id), 0, "none")
           /\ ok_count' = IF does.send /\ success /\ ok_count[message_id] < CountCap
                          THEN [ok_count EXCEPT ![message_id] = @ + 1]
                          ELSE ok_count
           /\ IF does.mark
              THEN pc2' = "mark" /\ idx2' = idx2 /\ pushcontents2' = pushcontents2
              ELSE NextFragment2
    /\ UNCHANGED <<store_vars, store_hist, engine_vars, cycle_tried, cycle_ok,
                   cycle_failed, cycle_true, failed_before, known_at_start, last,
                   stop_hist, processed_count2, call, reader_vars>>

\* mark_processed of the second poll_once, its write ending as w, and its count.
Mark2(w) ==
    /\ pc2 = "mark"
    /\ LET message_id == IdOf[pushcontents2[idx2]]
       IN  /\ StoreMark(message_id, w)
           /\ op' = Called("mark_processed", message_id, FALSE, 0, w)
    /\ NextFragment2
    /\ processed_count2' = processed_count2 + 1
    /\ UNCHANGED <<engine_vars, engine_hist, stop_hist, call, reader_vars>>

\* A cycle is in flight: between its fetch and its last mark.
InFlight == pc \in {"process", "mark"}
InFlight2 == pc2 \in {"process", "mark"}

ConcNext ==
    \/ StartConnected
    \/ LoopTest
    \/ \E content \in ConcFetched : PollFetch(content)
    \/ \E success \in SendResults : ProcessMessage(success)
    \/ \E w \in WriteOutcomes : MarkSent(w)
    \/ Sleep
    \/ \E content \in ConcFetched : Poll2Fetch(content)
    \/ \E success \in SendResults : Process2(success)
    \/ \E w \in WriteOutcomes : Mark2(w)

ConcSpec == FreshInit /\ [][ConcNext]_vars


\* C13 as stated: whoever invokes poll_once, at most one cycle is in flight and no
\* identity is dispatched successfully by two cycles that both found it unknown.
C13_AsStated ==
    /\ ~(InFlight /\ InFlight2)
    /\ \A id \in Ids : ok_count[id] <= 1

\* C13: while poll_once is invoked by the one loop of start_polling only, a cycle
\* starts after the previous one has processed its last fragment and holds every
\* identity it dispatched successfully, and no identity is dispatched successfully
\* twice.
C13_OneLoopOneCycle ==
    pc2 = "idle" =>
        /\ pc \in {"loop", "poll", "sleep"} =>
              /\ idx = Len(pushcontents)
              /\ cycle_ok \subseteq processed_ids
        /\ \A id \in Ids : ok_count[id] <= 1

\* A second cycle of the loop starts after a two-fragment cycle that dispatched.
C13_Witness ==
    /\ pc2 = "idle"
    /\ pc = "poll"
    /\ Len(pushcontents) = 2
    /\ cycle_ok # {}


\* C14: no condition of the pipeline is fatal: no exception leaves start_polling;
\* while stop_polling() has not been called the thread in the loop finds the
\* running flag set, so it goes on to the next cycle whatever the last one met;
\* and start_polling returns only from the device check before the loop, from
\* the while test after stop_polling(), or on Ctrl+C.
C14_NothingFatal ==
    /\ pc # "crashed"
    /\ ~raised
    /\ (pc \in {"loop", "poll", "process", "mark", "sleep"} /\ ~stop_called)
          => running
    /\ pc = "returned" =>
          /\ exit.how \in {"check", "test", "interrupt"}
          /\ exit.how = "test" => stop_called

\* The loop enters its next cycle after one in which a dispatch returned false and
\* the write of a dispatched identity failed.
C14_Witness ==
    /\ pc = "poll"
    /\ running
    /\ cycle_failed # {}
    /\ cycle_ok \cap save_failed # {}


\* C16: a cycle whose fetch returns nothing, or text without a well-formed tag, is
\* a no-op: poll_once returns 0 at once, _send_to_webhook is not called, and the
\* set in memory and the state file are as they were.
C16_EmptyCycleNoOp ==
    [][(/\ pc = "poll"
        /\ pc' \in {"sleep", "process"}
        /\ last'.kind \in {"absent", "no_tag"})
       => (/\ pc' = "sleep"
           /\ processed_count' = 0
           /\ cycle_tried' = {}
           /\ ok_count' = ok_count
           /\ processed_ids' = processed_ids
           /\ file' = file)]_vars

\* poll_once has returned from a fetch of nothing, in a process that has already
\* dispatched and marked an identity.
C16_Witness ==
    /\ pc = "sleep"
    /\ last.kind = "absent"
    /\ processed_count = 0
    /\ marked # {}


(***************************************************************************)
(* WeChatConnector._extract_pushcontent on the characters of the text.     *)
(*                                                                         *)
(* The pattern of line 71 is the tag name, white space, the attribute      *)
(* content with a value of characters other than the double quote, white   *)
(* space, the attribute nickname with such a value, optional white space   *)
(* and the self-closing end.  It                                           *)
(* is matched as re.findall matches it: at the leftmost position where it  *)
(* matches, then again from the end of that match.  Each quantifier is     *)
(* followed by a character it cannot take, so a match at a position is     *)
(* unique and there is nothing to backtrack over.                          *)
(***************************************************************************)
Quote == "\""
LitOpen == <<"<", "p", "u", "s", "h", "c", "o", "n", "t", "e", "n", "t">>
LitContent == <<"c", "o", "n", "t", "e", "n", "t", "=", Quote>>
LitNickname == <<"n", "i", "c", "k", "n", "a", "m", "e", "=", Quote>>
LitClose == <<"/", ">">>

\* The literal lit stands in s at index i.
starts_with(s, i, lit) ==
    /\ i >= 1
    /\ i + Len(lit) - 1 <= Len(s)
    /\ SubSeq(s, i, i + Len(lit) - 1) = lit

\* \s* from index i: the index of the first character from i on that is not white
\* space, Len(s) + 1 when there is none.
skip_space(s, i) ==
    LET rest == {j \in i..Len(s) : s[j] \notin Whitespace}
    IN  IF rest = {} THEN Len(s) + 1
        ELSE CHOOSE j \in rest : \A k \in rest : j <= k

\* A value and its closing quote from index i: the index of the first double
\* quote from i on, 0 when there is none.
next_quote(s, i) ==
    LET quotes == {j \in i..Len(s) : s[j] = Quote}
    IN  IF quotes = {} THEN 0
        ELSE CHOOSE j \in quotes : \A k \in quotes : j <= k

\* The pattern matched at index i of s: whether it matches, the two groups, and
\* the index after the match.
match_at(s, i) ==
    LET after_open == i + Len(LitOpen)
        at_content == skip_space(s, after_open)
        content_from == at_content + Len(LitContent)
        content_quote == next_quote(s, content_from)
        at_nickname == skip_space(s, content_quote + 1)
        nickname_from == at_nickname + Len(LitNickname)
        nickname_quote == next_quote(s, nickname_from)
        at_close == skip_space(s, nickname_quote + 1)
        ok == /\ starts_with(s, i, LitOpen)
              /\ at_content > after_open
              /\ starts_with(s, at_content, LitContent)
              /\ content_quote # 0
              /\ at_nickname > content_quote + 1
              /\ starts_with(s, at_nickname, LitNickname)
              /\ nickname_quote # 0
              /\ starts_with(s, at_close, LitClose)
    IN  IF ok
        THEN [ok |-> TRUE,
              content  |-> SubSeq(s, content_from, content_quote - 1),
              nickname |-> SubSeq(s, nickname_from, nickname_quote - 1),
              end |-> at_close + Len(LitClose)]
        ELSE [ok |-> FALSE, content |-> <<>>, nickname |-> <<>>, end |-> i + 1]

\* re.search in place of re.findall: the first match only.
RECURSIVE re_findall_first(_, _)
re_findall_first(s, i) ==
    IF i > Len(s) THEN <<>>
    ELSE LET m == match_at(s, i)
         IN  IF m.ok
             THEN <<[nickname |-> m.nickname, content |-> m.content]>>
             ELSE re_findall_first(s, i + 1)

\* re.findall(pattern, content) from index i on, and the dicts lines 74-78 make of
\* the matches.
RECURSIVE re_findall(_, _)
re_findall(s, i) ==
    IF i > Len(s) THEN <<>>
    ELSE LET m == match_at(s, i)
         IN  IF m.ok
             THEN <<[nickname |-> m.nickname, content |-> m.content]>>
                      \o re_findall(s, m.end)
             ELSE re_findall(s, i + 1)

\* The characters of a well-formed tag, with the white space given.
tag_text(f, s1, s2, s3) ==
    LitOpen \o s1 \o LitContent \o f.content \o <<Quote>> \o s2
        \o LitNickname \o f.nickname \o <<Quote>> \o s3 \o LitClose

\* A piece of dump text: its characters, the item it stands for in Texts, and its
\* kind: a well-formed tag, the head of a cut-off tag, a complete tag that is
\* malformed, or other text.  No two pieces join into a tag.
TagChunk(f) ==
    [kind |-> "tag", item |-> Tag(f), text |-> tag_text(f, <<" ">>, <<" ">>, <<>>)]
SpacedTagChunk ==
    [kind |-> "tag", item |-> Tag(FragGroupAlHi),
     text |-> tag_text(FragGroupAlHi, <<" ", "\t">>, <<"\t">>, <<" ">>)]
OtherChunk(kind, text) == [kind |-> kind, item |-> OtherText, text |-> text]

Heads ==
    {LitOpen,
     LitOpen \o <<" ">> \o LitContent \o <<"h">>,
     LitOpen \o <<" ">> \o LitContent \o <<"h", "i", Quote, " ">>,
     LitOpen \o <<" ">> \o LitContent \o <<"h", "i", Quote, " ">> \o LitNickname,
     LitOpen \o <<" ">> \o LitContent \o <<"h", "i", Quote, " ">> \o LitNickname
         \o <<"B", "o", "b", Quote>>}
Malformed ==
    {\* the attributes in the other order
     LitOpen \o <<" ">> \o LitNickname \o <<"B", "o", "b", Quote, " ">>
         \o LitContent \o <<"h", "i", Quote>> \o LitClose,
     \* no white space after the tag name
     LitOpen \o LitContent \o <<"h", "i", Quote, " ">> \o LitNickname
         \o <<"B", "o", "b", Quote>> \o LitClose,
     \* not self-closed
     LitOpen \o <<" ">> \o LitContent \o <<"h", "i", Quote, " ">> \o LitNickname
         \o <<"B", "o", "b", Quote, ">">>}
PlainText == <<"z", "z">>

Chunks ==
    {TagChunk(f) : f \in DumpFragments} \cup {SpacedTagChunk}
        \cup {OtherChunk("head", t) : t \in Heads}
        \cup {OtherChunk("malformed", t) : t \in Malformed}
        \cup {OtherChunk("text", PlainText)}

\* The characters of a text, and its items.
RECURSIVE text_of(_)
text_of(chunks) ==
    IF chunks = <<>> THEN <<>> ELSE Head(chunks).text \o text_of(Tail(chunks))
items_of(chunks) == [i \in DOMAIN chunks |-> chunks[i].item]


(***************************************************************************)
(* The helpers of WeChatConnector called on their own: HelperSpec.         *)
(*                                                                         *)
(* One helper is called once, on an input drawn from a bounded set, and    *)
(* the call is recorded.                                                   *)
(***************************************************************************)
not_call == <<store_vars, store_hist, op, engine_vars, engine_hist, stop_hist,
              second_vars, reader_vars>>

\* _send_to_webhook(msg) when its urlopen call ends as x.
CallSend(x) ==
    /\ call' = [name |-> "_send_to_webhook", arg |-> x, ret |-> _send_to_webhook(x)]
    /\ UNCHANGED not_call

\* The strings over an alphabet up to a length.
Strings(alphabet, n) == UNION {[1..k -> alphabet] : k \in 0..n}

\* The fragments _parse_message is called on: nicknames that are a group
\* sentinel, bare or padded with white space, and others; every content over a
\* blank, a colon and a letter.
ParseNicknames ==
    {GroupSentinel, GroupWithAI,
     <<" ">> \o GroupSentinel \o <<"\t">>, <<"\t">> \o GroupWithAI,
     GroupSentinel \o <<"x">>, <<"g", "r", "o", "u", "p">>,
     <<"B", "o", "b">>, <<" ", "B", "o", "b", " ">>, <<" ">>, <<>>}
ParseContents == Strings({" ", ":", "a"}, MaxContentLen)

\* _parse_message(pushcontent).
CallParse(pushcontent) ==
    /\ call' = [name |-> "_parse_message", arg |-> pushcontent,
                ret |-> _parse_message(pushcontent)]
    /\ UNCHANGED not_call

\* The triples _compute_message_id is called on: senders and contents over a
\* letter and the colon the key is joined with.
Triples ==
    [is_group : BOOLEAN,
     sender   : Strings({"a", ":"}, MaxFieldLen),
     content  : Strings({"a", ":"}, MaxFieldLen)]

\* _compute_message_id on a triple and on another one.
CallIdentity(a, b) ==
    /\ call' = [name      |-> "_compute_message_id",
                arg       |-> a,
                other     |-> b,
                key       |-> message_key(a.is_group, a.sender, a.content),
                other_key |-> message_key(b.is_group, b.sender, b.content),
                ret       |-> _compute_message_id(a.is_group, a.sender, a.content),
                other_ret |-> _compute_message_id(b.is_group, b.sender, b.content)]
    /\ UNCHANGED not_call

\* The dump texts _extract_pushcontent is called on by itself, as their pieces.
ChunkTexts == Strings(Chunks, MaxTextLen)

\* _extract_pushcontent(content) on the characters of a text.
CallExtract(chunks) ==
    /\ call' = [name |-> "_extract_pushcontent", arg |-> chunks,
                ret |-> re_findall(text_of(chunks), 1)]
    /\ UNCHANGED not_call

HelperNext ==
    \/ call = NoCall /\ \E x \in Exchanges : CallSend(x)
    \/ call = NoCall /\ \E n \in ParseNicknames, c \in ParseContents :
                            CallParse([nickname |-> n, content |-> c])
    \/ call = NoCall /\ \E a \in Triples, b \in Triples : CallIdentity(a, b)
    \/ call = NoCall /\ \E chunks \in ChunkTexts : CallExtract(chunks)

HelperSpec == FreshInit /\ [][HelperNext]_vars

\* C15: _send_to_webhook returns true exactly when its one outbound call ends with
\* a response of status 200; in every other case it returns false; it never raises.
C15_TrueIffStatus200 ==
    call.name = "_send_to_webhook" =>
        /\ call.ret.ret = (call.arg.kind = "response" /\ call.arg.status = 200)
        /\ ~call.ret.raised

\* The call ended with a response of another success status and returned false.
C15_Witness ==
    /\ call.name = "_send_to_webhook"
    /\ call.arg.kind = "response"
    /\ call.arg.status # 200
    /\ ~call.ret.ret


\* t is s without its leading and trailing white space.
IsStripOf(t, s) ==
    \E lo \in 1..(Len(s) + 1), hi \in 0..Len(s) :
        /\ t = SubSeq(s, lo, hi)
        /\ \A k \in 1..Len(s) : (k < lo \/ k > hi) => s[k] \in Whitespace
        /\ t # <<>> => (t[1] \notin Whitespace /\ t[Len(t)] \notin Whitespace)

\* " : " stands in s at index i.
SepAt(s, i) ==
    /\ i >= 1
    /\ i + 2 <= Len(s)
    /\ s[i] = " "
    /\ s[i + 1] = ":"
    /\ s[i + 2] = " "

\* " : " occurs in s, and i is where its first occurrence starts.
FirstSepAt(s, i) ==
    /\ SepAt(s, i)
    /\ \A j \in 1..(i - 1) : ~SepAt(s, j)

\* t is the trimmed text left (right) of the first " : " of s.
LeftOfFirstSep(s, t) ==
    \E i \in 1..Len(s) : FirstSepAt(s, i) /\ IsStripOf(t, SubSeq(s, 1, i - 1))
RightOfFirstSep(s, t) ==
    \E i \in 1..Len(s) : FirstSepAt(s, i) /\ IsStripOf(t, SubSeq(s, i + 3, Len(s)))

\* C17: _parse_message classifies a fragment by its trimmed nickname.  A group
\* sentinel gives a group message: with " : " in the content, the sender is the
\* trimmed text left of its first occurrence and the content the trimmed text
\* right of it; without, the sender is the unknown sentinel and the content is
\* unmodified.  Any other nickname gives a direct message whose sender is the
\* trimmed nickname and whose content is the trimmed text right of the first
\* " : ", or the whole content when there is none.
C17_Classification ==
    call.name = "_parse_message" =>
        LET nickname == call.arg.nickname
            content == call.arg.content
            msg == call.ret
            group == \E g \in {GroupSentinel, GroupWithAI} : IsStripOf(g, nickname)
            has_sep == \E i \in 1..Len(content) : SepAt(content, i)
        IN  /\ msg.is_group = group
            /\ (group /\ has_sep) =>
                  /\ LeftOfFirstSep(content, msg.sender)
                  /\ RightOfFirstSep(content, msg.content)
            /\ (group /\ ~has_sep) =>
                  (msg.sender = UnknownSender /\ msg.content = content)
            /\ ~group => IsStripOf(msg.sender, nickname)
            /\ (~group /\ has_sep) => RightOfFirstSep(content, msg.content)
            /\ (~group /\ ~has_sep) => msg.content = content

\* A fragment with a padded group sentinel and two separators has been parsed.
C17_Witness ==
    /\ call.name = "_parse_message"
    /\ call.arg.nickname \notin {GroupSentinel, GroupWithAI}
    /\ call.ret.is_group
    /\ \E i, j \in 1..Len(call.arg.content) :
          i < j /\ SepAt(call.arg.content, i) /\ SepAt(call.arg.content, j)


\* The fields in which the two triples of the call differ.
Differing == {f \in {"is_group", "sender", "content"} : call.arg[f] # call.other[f]}

\* C18: the identity is a function of (is_group, sender, content) alone: equal
\* triples have equal identities, and two triples that differ in exactly one field
\* have different canonical keys, hence different identities.
C18_OneFieldChangesKey ==
    call.name = "_compute_message_id" =>
        /\ Differing = {} => call.ret = call.other_ret
        /\ Cardinality(Differing) = 1 =>
              (call.key # call.other_key /\ call.ret # call.other_ret)

\* Two triples that differ in the sender only, one sender holding a colon.
C18_Witness ==
    /\ call.name = "_compute_message_id"
    /\ Differing = {"sender"}
    /\ ":" \in Range(call.arg.sender)
    /\ call.ret # call.other_ret


\* A piece is a well-formed tag.
IsTag(chunk) == chunk.item.wf

\* The fragments of the well-formed tags among the pieces, in text order.
FragmentsOf(chunks) ==
    LET tags == SelectSeq(chunks, IsTag)
    IN  [i \in DOMAIN tags |->
            [nickname |-> tags[i].item.nickname, content |-> tags[i].item.content]]

\* C19: for any text of well-formed tags, heads of cut-off tags, malformed tags
\* and other text, _extract_pushcontent returns one fragment per well-formed
\* tag, in text order and with repeats, and nothing for the other pieces; it is
\* what the extraction on the items of the text gives; a text without a
\* well-formed tag, the empty text too, gives the empty list.
C19_TagsInOrder ==
    call.name = "_extract_pushcontent"
    => /\ call.ret = FragmentsOf(call.arg)
       /\ call.ret = _extract_pushcontent(items_of(call.arg))

\* The head of a cut-off tag, then a well-formed tag: one fragment.
C19_Witness ==
    /\ call.name = "_extract_pushcontent"
    /\ Len(call.arg) = 2
    /\ call.arg[1].kind = "head"
    /\ call.arg[2].kind = "tag"
    /\ Len(call.ret) = 1


(***************************************************************************)
(* MMKVReader: change detection, ReaderSpec.                               *)
(*                                                                         *)
(* The watched file changes on the device, has_new_content is called on    *)
(* the reader, and a new reader is made.  checked records the last call.   *)
(***************************************************************************)
not_reader == <<store_vars, store_hist, op, engine_vars, engine_hist, stop_hist,
                second_vars, call>>

\* How the stat command of get_file_stat ends: its output holds a size and a
\* modify line, adb fails or times out, or the output lacks one of the lines.
StatOutcomes == {"ok", "adb_failed", "unparsed"}

\* get_file_stat(): the size and the mtime in whole seconds, or None.
get_file_stat(outcome, dev) ==
    IF outcome = "ok" THEN Some([mtime |-> dev.sec, size |-> dev.size])
    ELSE None

\* has_new_content that compares the mtime alone.
has_new_content_mtime_only(stat, last_mtime, last_size) ==
    IF stat = None
    THEN [ret |-> FALSE, mtime |-> last_mtime, size |-> last_size]
    ELSE IF last_mtime = None
    THEN [ret |-> TRUE, mtime |-> Some(stat[1].mtime), size |-> stat[1].size]
    ELSE [ret   |-> stat[1].mtime # last_mtime[1],
          mtime |-> Some(stat[1].mtime), size |-> stat[1].size]

\* has_new_content() when get_file_stat gives stat: what it returns, and
\* _last_mtime and _last_size after it.
has_new_content(stat, last_mtime, last_size) ==
    IF stat = None
    THEN [ret |-> FALSE, mtime |-> last_mtime, size |-> last_size]
    ELSE IF last_mtime = None
    THEN [ret |-> TRUE, mtime |-> Some(stat[1].mtime), size |-> stat[1].size]
    ELSE [ret   |-> \/ stat[1].mtime # last_mtime[1]
                    \/ stat[1].size # last_size,
          mtime |-> Some(stat[1].mtime), size |-> stat[1].size]

\* The file is written on the device, or its mtime is set.
DeviceWrite ==
    /\ \E sec \in 0..MaxMtime, frac \in {0, 1}, size \in 0..MaxSize :
           /\ [sec |-> sec, frac |-> frac, size |-> size] # device
           /\ device' = [sec |-> sec, frac |-> frac, size |-> size]
    /\ got' = [got EXCEPT !.owed = FALSE]
    /\ UNCHANGED <<_last_mtime, _last_size, checked, not_reader>>

\* has_new_content(), its stat command ending as outcome: the cache after it and
\* the record of the call.
CheckNewContent(outcome) ==
    LET stat == get_file_stat(outcome, device)
        r == has_new_content(stat, _last_mtime, _last_size)
    IN  /\ _last_mtime' = r.mtime
        /\ _last_size' = r.size
        /\ checked' = [which  |-> IF checked.which = "none" THEN "first"
                                                             ELSE "later",
                       stat   |-> stat,
                       ret    |-> r.ret,
                       prev   |-> checked.stat,
                       seen   |-> IF checked.stat # None THEN checked.stat
                                                         ELSE checked.seen,
                       before |-> <<_last_mtime, _last_size>>]

\* reader.has_new_content()
HasNewContent(outcome) ==
    /\ CheckNewContent(outcome)
    /\ UNCHANGED <<device, got, not_reader>>

\* MMKVReader(...): another reader of the same file.
NewReader ==
    /\ checked.which # "none"
    /\ _last_mtime' = None
    /\ _last_size' = 0
    /\ checked' = NoCheck
    /\ got' = NoGot
    /\ UNCHANGED <<device, not_reader>>

ReaderNext ==
    \/ DeviceWrite
    \/ \E outcome \in StatOutcomes : HasNewContent(outcome)
    \/ NewReader

ReaderSpec == FreshInit /\ [][ReaderNext]_vars

\* C20 as stated: the first call on a reader returns True, and a later call
\* returns True exactly when the mtime or the size differs from what the call
\* before it observed.
C20_AsStated ==
    /\ checked.which = "first" => checked.ret
    /\ checked.which = "later" => (checked.ret <=> checked.stat # checked.prev)

\* C20: a call whose get_file_stat gives None returns False and leaves the cached
\* values as they were; the first call on a reader whose get_file_stat gives a
\* stat returns True; every later such call returns True exactly when the mtime
\* in whole seconds or the size differs from those of the last call that got a
\* stat; and the cached values are then those of this call.
C20_ChangeSinceLastStat ==
    /\ (checked.which # "none" /\ checked.stat = None)
       => /\ ~checked.ret
          /\ <<_last_mtime, _last_size>> = checked.before
    /\ (checked.stat # None /\ checked.seen = None) => checked.ret
    /\ (checked.stat # None /\ checked.seen # None)
       => (checked.ret <=> \/ checked.stat[1].mtime # checked.seen[1].mtime
                           \/ checked.stat[1].size # checked.seen[1].size)
    /\ checked.stat # None
       => /\ _last_mtime = Some(checked.stat[1].mtime)
          /\ _last_size = checked.stat[1].size

\* A later call that finds the size changed and the mtime the same, after a call
\* that got no stat.
C20_Witness ==
    /\ checked.which = "later"
    /\ checked.prev = None
    /\ checked.stat # None
    /\ checked.seen # None
    /\ checked.stat[1].mtime = checked.seen[1].mtime
    /\ checked.stat[1].size # checked.seen[1].size
    /\ checked.ret


\* C21: when poll_once has returned, its count is the number of times
\* _send_to_webhook returned true in the cycle, and is the number of identities
\* the dedup set has gained since the cycle began, none of which it has lost;
\* a cycle that ends before the for loop returns 0.
C21_CountIsNewlyDispatched ==
    pc = "sleep" =>
        /\ processed_count = cycle_true
        /\ known_at_start \subseteq processed_ids
        /\ processed_count = Cardinality(processed_ids \ known_at_start)

\* A cycle over a dump with two fragments of one identity has returned 1: the
\* dispatch of the first returned false, that of the second true.
C21_Witness ==
    /\ pc = "sleep"
    /\ processed_count = 1
    /\ cycle_failed \cap cycle_ok # {}
    /\ Len(pushcontents) >= 2


\* The step is process_message run on pushcontents[idx]: the thread leaves the
\* fragment, for the mark, the next fragment or the end of the cycle.
ProcessStep ==
    /\ pc = "process"
    /\ pc' \in {"process", "mark", "sleep"}
    /\ <<pc', idx'>> # <<pc, idx>>

\* C22: process_message on a fragment whose identity is in the dedup set calls
\* is_processed, which returns true, makes no call of _send_to_webhook or
\* mark_processed and returns False (the count of the cycle stays), and the set,
\* the file and the records of the dispatches are as they were.
C22_SkipHasNoEffect ==
    [][(ProcessStep /\ IdOf[pushcontents[idx]] \in processed_ids)
       => /\ op'.name = "is_processed" /\ op'.ret
          /\ last'.kind = "skip"
          /\ pc' # "mark"
          /\ processed_count' = processed_count
          /\ UNCHANGED <<store_vars, store_hist>>
          /\ UNCHANGED <<ok_count, cycle_tried, cycle_ok, cycle_failed,
                         cycle_true>>]_vars

\* A fragment whose identity the store held when the cycle began has been skipped,
\* in a cycle with another fragment.
C22_Witness ==
    /\ last.kind = "skip"
    /\ last.id \in known_at_start
    /\ pc = "process"
    /\ idx >= 2


\* C23 as stated: in one cycle _send_to_webhook is not called for an identity it
\* has been called for in the same cycle, whatever the dump and the outcomes.
C23_AsStated ==
    [][(ProcessStep /\ last'.kind = "send") => last'.id \notin cycle_tried]_vars

\* C23, amended: in one cycle _send_to_webhook is called at most once per fragment
\* of the dump (the for loop never comes back to a fragment, and a step of it
\* makes at most one call), never for an identity in the dedup set, never again
\* for an identity it has returned true for in the cycle, and again for an
\* identity only when each earlier call for it in the cycle returned false.
C23_OneAttemptPerFragment ==
    [][/\ ProcessStep =>
            /\ \/ pc' = "mark" /\ idx' = idx
               \/ pc' = "process" /\ idx' = idx + 1
               \/ pc' = "sleep" /\ idx = Len(pushcontents)
            /\ pushcontents' = pushcontents
            /\ cycle_tried' \subseteq cycle_tried \cup {IdOf[pushcontents[idx]]}
            /\ cycle_true' <= cycle_true + 1
       /\ (ProcessStep /\ last'.kind = "send") =>
            /\ last'.id = IdOf[pushcontents[idx]]
            /\ last'.id \notin processed_ids
            /\ last'.id \notin cycle_ok
            /\ last'.id \in cycle_tried => last'.id \in cycle_failed
       /\ (pc = "mark" /\ pc' \in {"process", "sleep"}) =>
            /\ \/ pc' = "process" /\ idx' = idx + 1
               \/ pc' = "sleep" /\ idx = Len(pushcontents)
            /\ pushcontents' = pushcontents
            /\ UNCHANGED <<cycle_tried, cycle_true>>
      ]_vars

\* A later fragment of an identity has been dispatched, with success, in the cycle
\* in which the dispatch of an earlier one returned false.
C23_Witness ==
    /\ pc = "mark"
    /\ last.kind = "send"
    /\ last.ok
    /\ last.id \in cycle_failed
    /\ \E j \in 1..(idx - 1) : IdOf[pushcontents[j]] = last.id


\* C24 as stated: when the write of a mark_processed fails, on an instance whose
\* earlier writes all succeeded (the file then held the set as the call found
\* it), an instance constructed next on the same path holds every identity of
\* that set.
C24_AsStated ==
    [][(/\ op.name = "mark_processed"
        /\ op.w # "ok"
        /\ op.clean
        /\ op'.name = "construct")
       => \A id \in op.before : is_processed(processed_ids', id)]_vars


\* C25 as stated: two triples that differ in any way, a colon in the sender or
\* the content included, have different canonical keys, hence different
\* identities.
C25_AsStated ==
    (call.name = "_compute_message_id" /\ call.arg # call.other)
    => (call.key # call.other_key /\ call.ret # call.other_ret)


(***************************************************************************)
(* MMKVReader.get_messages(only_new=True): MessagesSpec.                   *)
(*                                                                         *)
(* The watched file changes on the device, get_messages is called on the   *)
(* reader, and a new reader is made.  got records the last call: whether   *)
(* has_new_content returned true, whether the stat and the read could      *)
(* succeed, and what read_text_content did: "none" (not called), "absent"  *)
(* (it returned None, get_messages returns the empty list) or "text" (it   *)
(* returned the text, get_messages returns the messages parsed from it).   *)
(***************************************************************************)
\* get_messages(only_new=True), lines 333-340, when the stat command ends as
\* outcome and a read of the file would succeed or not.
GetMessages(outcome, read_ok) ==
    /\ CheckNewContent(outcome)
    /\ LET read == IF ~checked'.ret THEN "none"
                   ELSE IF read_ok THEN "text" ELSE "absent"
       IN  got' = [changed     |-> checked'.ret,
                   stat_ok     |-> outcome = "ok",
                   read_ok     |-> read_ok,
                   read        |-> read,
                   owed_before |-> got.owed,
                   owed        |-> CASE read = "text"   -> FALSE
                                     [] read = "absent" -> TRUE
                                     [] read = "none"   -> got.owed]
    /\ UNCHANGED <<device, not_reader>>

MessagesNext ==
    \/ DeviceWrite
    \/ \E outcome \in StatOutcomes, read_ok \in BOOLEAN : GetMessages(outcome, read_ok)
    \/ NewReader

MessagesSpec == FreshInit /\ [][MessagesNext]_vars

\* C26 as stated: when a get_messages(only_new=True) call detected a change and
\* its read returned None, a later such call on the file as it still is, whose
\* stat succeeds and whose read can succeed, reads the file and returns its
\* messages.
C26_AsStated ==
    (got.owed_before /\ got.stat_ok /\ got.read_ok) => got.read = "text"

=============================================================================
